---- MODULE Spec2Model ----
(***************************************************************************)
(* Model of ssh-liberty-bridge (src/main.go): the public-key admission     *)
(* handler with its per-identity connection counter, the direct-tcpip      *)
(* forwarding channel handler with its two relay tasks, and the goroutine  *)
(* that copies the version string of another server.                       *)
(*                                                                          *)
(* Strings are sequences of characters (one-character strings, or tokens   *)
(* standing for a run of characters that no operation here splits).        *)
(***************************************************************************)
EXTENDS Integers, Sequences, FiniteSets, TLC

\* ------------------------------------------------------------------ bounds
NAttempts == 2      \* connections that attempt public-key authentication
NChannels == 1      \* direct-tcpip channel-open requests
MaxBytes == 1       \* bytes one relay direction can copy

\* --------------------------------------------------------- configuration
\* The values of MAX_CONNECTIONS the model is run with (0 is refused at startup).
MaxConnsValues == {1, 2}

\* ------------------------------------------------------------ string helpers
Rep(c, n) == [i \in 1..n |-> c]

RECURSIVE TrimLeft(_, _)
TrimLeft(s, cutset) ==
    IF s # <<>> /\ Head(s) \in cutset THEN TrimLeft(Tail(s), cutset) ELSE s

RECURSIVE TrimRight(_, _)
TrimRight(s, cutset) ==
    IF s # <<>> /\ s[Len(s)] \in cutset
    THEN TrimRight(SubSeq(s, 1, Len(s) - 1), cutset)
    ELSE s

\* strings.Trim(s, cutset): strips leading and trailing characters of cutset.
Trim(s, cutset) == TrimRight(TrimLeft(s, cutset), cutset)

Digits == <<"0", "1", "2", "3", "4", "5", "6", "7", "8", "9">>

RECURSIVE FormatNat(_)
FormatNat(n) ==
    IF n < 10 THEN <<Digits[n + 1]>>
    ELSE FormatNat(n \div 10) \o <<Digits[(n % 10) + 1]>>

\* The decimal text redis keeps for an integer hash field.
FormatInt(n) == IF n < 0 THEN <<"-">> \o FormatNat(-n) ELSE FormatNat(n)

DigitVal(c) == CHOOSE d \in 0..9 : Digits[d + 1] = c

IsDigits(s) == s # <<>> /\ \A i \in 1..Len(s) : \E d \in 1..10 : Digits[d] = s[i]

RECURSIVE StripZeros(_)
StripZeros(s) == IF Len(s) > 1 /\ Head(s) = "0" THEN StripZeros(Tail(s)) ELSE s

\* Order of two digit strings without leading zeros, as numbers.
RECURSIVE LexLeq(_, _)
LexLeq(s, t) ==
    IF s = <<>> THEN TRUE
    ELSE IF DigitVal(Head(s)) # DigitVal(Head(t))
         THEN DigitVal(Head(s)) < DigitVal(Head(t))
         ELSE LexLeq(Tail(s), Tail(t))

DigitsLeq(s, t) == Len(s) < Len(t) \/ (Len(s) = Len(t) /\ LexLeq(s, t))

\* Largest magnitude of a bitSize-bit integer (2^(bitSize-1) - 1), in digits.
MaxInt(bitSize) ==
    IF bitSize = 32
    THEN <<"2", "1", "4", "7", "4", "8", "3", "6", "4", "7">>
    ELSE <<"9", "2", "2", "3", "3", "7", "2", "0", "3", "6", "8", "5", "4",
           "7", "7", "5", "8", "0", "7">>

\* digits + k and digits - k (k a small natural, digits - k >= 0), in digits.
RECURSIVE AddDigits(_, _)
AddDigits(s, k) ==
    IF k = 0 THEN s
    ELSE IF s = <<>> THEN FormatNat(k)
    ELSE LET t == DigitVal(s[Len(s)]) + (k % 10)
         IN  AddDigits(SubSeq(s, 1, Len(s) - 1), (k \div 10) + (t \div 10))
                 \o <<Digits[(t % 10) + 1]>>

RECURSIVE SubDigits(_, _)
SubDigits(s, k) ==
    IF k = 0 THEN s
    ELSE LET t == DigitVal(s[Len(s)]) - (k % 10)
         IN  IF t < 0
             THEN SubDigits(SubSeq(s, 1, Len(s) - 1), (k \div 10) + 1)
                      \o <<Digits[t + 11]>>
             ELSE SubDigits(SubSeq(s, 1, Len(s) - 1), k \div 10)
                      \o <<Digits[t + 1]>>

RECURSIVE ParseNat(_, _)
ParseNat(s, acc) ==
    IF s = <<>> THEN acc ELSE ParseNat(Tail(s), acc * 10 + DigitVal(Head(s)))

\* strconv.ParseInt(s, 10, bitSize): [err, val]; err on empty or non-numeric
\* text and on a value outside the bitSize range (the one value -2^(bitSize-1)
\* is left out of the range here). val is meaningful for values that fit
\* 32 bits.
ParseInt(s, bitSize) ==
    LET neg  == s # <<>> /\ Head(s) = "-"
        body == IF s # <<>> /\ Head(s) \in {"-", "+"} THEN Tail(s) ELSE s
    IN  IF ~IsDigits(body) THEN [err |-> TRUE, val |-> 0]
        ELSE IF ~DigitsLeq(StripZeros(body), MaxInt(bitSize))
             THEN [err |-> TRUE, val |-> 0]
        ELSE IF ~DigitsLeq(StripZeros(body), MaxInt(32))
             THEN [err |-> FALSE, val |-> 0]
        ELSE [err |-> FALSE,
              val |-> IF neg THEN -ParseNat(body, 0) ELSE ParseNat(body, 0)]

\* A hash field of the store is its text; <<>> stands for an absent field.
NoField == <<>>

\* The text of (the integer written sign, mag) + delta.
AddText(neg, mag, delta) ==
    LET small == DigitsLeq(mag, FormatNat(1000000))
        m == IF small THEN ParseNat(mag, 0) ELSE 0
    IN  IF small
        THEN FormatInt((IF neg THEN -m ELSE m) + delta)
        ELSE IF neg = (delta < 0)
             THEN (IF neg THEN <<"-">> ELSE <<>>)
                      \o AddDigits(mag, IF delta < 0 THEN -delta ELSE delta)
             ELSE (IF neg THEN <<"-">> ELSE <<>>)
                      \o StripZeros(SubDigits(mag, IF delta < 0 THEN -delta ELSE delta))

\* HINCRBY on a field, |delta| <= 1000000: an absent field counts as 0; the
\* command fails on a field that is not a 64-bit integer and on overflow.
RedisIncr(field, delta) ==
    IF field = NoField THEN [err |-> FALSE, field |-> FormatInt(delta)]
    ELSE IF ParseInt(field, 64).err THEN [err |-> TRUE, field |-> field]
    ELSE LET neg == Head(field) = "-"
             mag == StripZeros(IF Head(field) \in {"-", "+"} THEN Tail(field) ELSE field)
             sum == AddText(neg, mag, delta)
         IN  IF ParseInt(sum, 64).err
             THEN [err |-> TRUE, field |-> field]
             ELSE [err |-> FALSE, field |-> sum]

\* ------------------------------------------------------------ admission inputs
Uuid(c) ==
    Rep(c, 8) \o <<"-">> \o Rep(c, 4) \o <<"-">> \o Rep(c, 4) \o <<"-">>
        \o Rep(c, 4) \o <<"-">> \o Rep(c, 12)

\* The user names clients present (ctx.User()), each under a short alias that
\* is used as the key of the store's hashes.
Identities == {"alice", "bob", "short", "padded"}

UserName(u) ==
    CASE u = "alice"  -> Uuid("1")
      [] u = "bob"    -> Uuid("2")
      [] u = "short"  -> Rep("1", 35)                 \* 35 characters
      [] u = "padded" -> <<"\n">> \o Rep("1", 35)     \* 36 characters, leading newline

\* gossh.MarshalAuthorizedKey(key): "<type> <base64>\n".
MarshalAuthorizedKey(key) == <<"ssh-ed25519", " ", key, "\n">>

\* The key line as the out-of-band generator stores it (no line terminator).
CanonicalKey(key) == <<"ssh-ed25519", " ", key>>

\* The (user, key, context has a Done channel) triples the substrate presents.
Requests ==
    <<  [user |-> "alice",  key |-> "AAAAkey1", hasDone |-> TRUE],
        [user |-> "alice",  key |-> "AAAAkey2", hasDone |-> TRUE],
        [user |-> "bob",    key |-> "AAAAkey2", hasDone |-> TRUE],
        [user |-> "short",  key |-> "AAAAkey1", hasDone |-> TRUE],
        [user |-> "padded", key |-> "AAAAkey1", hasDone |-> TRUE],
        [user |-> "alice",  key |-> "AAAAkey1", hasDone |-> FALSE] >>

\* The set "ssh-server:users", filled out of band with "<uuid>::<key line>".
\* The handler only reads it.
sshUsers ==
    { UserName("alice") \o <<":", ":">> \o CanonicalKey("AAAAkey1"),
      UserName("bob") \o <<":", ":">> \o CanonicalKey("AAAAkey2") }

Attempts == 1..NAttempts

\* ----------------------------------------------------------- forwarding inputs
\* WHITELIST_PORTS and SOCKS_PROXY values the model is run with.
WhitelistValues == {<<>>, <<80>>}
SocksProxyValues == {<<>>, <<"127.0.0.1", ":", "1080">>}

NoIP == <<"no address">>

\* net.ResolveIPAddr("ip4", host), then ("ip6", host), then ipAddr.String():
\* the text of the address, NoIP when both resolutions fail. An IPv6
\* address with a zone prints as "<ip>%<zone>".
ResolveIPAddr(host) ==
    CASE host = "127.0.0.1"        -> <<"127.0.0.1">>
      [] host = "localhost"        -> <<"127.0.0.1">>
      [] host = "10.0.0.5"         -> <<"10.0.0.5">>
      [] host = "8.8.8.8"          -> <<"8.8.8.8">>
      [] host = "example.org"      -> <<"93.184.216.34">>
      [] host = "fe80::1%eth0"     -> <<"fe80::1", "%", "eth0">>
      [] OTHER                     -> NoIP

\* net.ParseIP(s): the address when s is the text of one, "" (nil) otherwise;
\* a text with a zone, brackets or a port is not the text of an address.
KnownIPs == {"127.0.0.1", "10.0.0.5", "8.8.8.8", "93.184.216.34", "fe80::1", "::1"}
ParseIP(s) == IF Len(s) = 1 /\ s[1] \in KnownIPs THEN s[1] ELSE ""

IsLoopback(ip) == ip \in {"127.0.0.1", "::1"}
IsLinkLocalMulticast(ip) == FALSE
IsLinkLocalUnicast(ip) == ip \in {"fe80::1"}
IsPrivate(ip) == ip \in {"10.0.0.5"}

\* Lines 48-54.
isLocalIP(dhost) ==
    LET ip == ParseIP(dhost)
    IN  IF ip = "" THEN FALSE
        ELSE IsLoopback(ip) \/ IsLinkLocalMulticast(ip) \/ IsLinkLocalUnicast(ip)
                 \/ IsPrivate(ip)

\* Lines 201-208.
containsNumber(list, number) == \E i \in 1..Len(list) : list[i] = number

\* net.JoinHostPort(host, port): "host:port", "[host]:port" when host has a
\* colon or a percent sign.
JoinHostPort(host, port) ==
    IF \E i \in 1..Len(host) : host[i] \in {"fe80::1", "::1", "%"}
    THEN <<"[">> \o host \o <<"]", ":">> \o port
    ELSE host \o <<":">> \o port

\* The channel-open requests the substrate hands to the handler: the session's
\* user, whether ExtraData unmarshals, and the destination of the payload.
ForwardRequests ==
    <<  [user |-> "alice", wellFormed |-> FALSE, DestAddr |-> "127.0.0.1",    DestPort |-> 80],
        [user |-> "alice", wellFormed |-> TRUE,  DestAddr |-> "nowhere.invalid", DestPort |-> 80],
        [user |-> "alice", wellFormed |-> TRUE,  DestAddr |-> "localhost",    DestPort |-> 80],
        [user |-> "bob",   wellFormed |-> TRUE,  DestAddr |-> "10.0.0.5",     DestPort |-> 6379],
        [user |-> "alice", wellFormed |-> TRUE,  DestAddr |-> "8.8.8.8",      DestPort |-> 80],
        [user |-> "bob",   wellFormed |-> TRUE,  DestAddr |-> "example.org",  DestPort |-> 443] >>

Channels == 1..NChannels
Directions == {"down", "up"}    \* dconn -> ch (lines 111-117), ch -> dconn (118-124)

VARIABLES
    \* --- external store
    connections,    \* hash "ssh-server:connections": identity -> field text
    usage,          \* hash "ssh-server:users-usage": identity -> integer
    \* --- configuration, fixed at startup
    maxConns,       \* MAX_CONNECTIONS
    whitelistPorts, \* WHITELIST_PORTS, parsed
    SocksProxyAddr, \* SOCKS_PROXY
    \* --- direct-tcpip handler, one call per channel-open request
    chReq,          \* index into ForwardRequests, 0 before the call
    chPc,           \* position of the handler: "idle", "dial", "accept", "relay", "end"
    dest,           \* the handler's variable dest
    rejected,       \* reason given to newChan.Reject, "" while not rejected
    dialed,         \* how the destination was dialed: "", "proxy", "direct"
    accepted,       \* newChan.Accept() succeeded
    chOpen,         \* the accepted channel ch is open
    dconnOpen,      \* the dialed connection dconn is open
    taskPc,         \* per direction: "none", "copy", "incr", "close", "done"
    copied,         \* per direction: bytes io.Copy has written
    usageFailed,    \* per direction: the usage HIncrBy returned an error
    \* --- PublicKeyHandler, one call per attempt
    req,            \* index into Requests of the attempt's inputs, 0 before the call
    pc,             \* position of the call
    ret,            \* "none" while running, then "admit" or "deny"
    doneCh,         \* the attempt's ctx.Done() channel has been closed
    decTask,        \* the goroutine of lines 322-326: "none", "waiting", "finished"
    mutex,          \* userConnectionCountMutex: 0 when free, else the holder
    \* --- history of the calls
    calls,          \* store operations the attempt has issued
    failed,         \* store operations of the attempt that returned an error
    connSeen,       \* what the counter field held when the attempt's HGet ran
    decIssued,      \* number of HIncrBy(-1) calls issued for the attempt
    burst,          \* the attempt is one of a burst started at counter maxConns-1
    \* --- the version-copy goroutine
    shouldCopyVersionString,
    mimPc,          \* position: "start", "dial", "read", "parse", "sleep", "exited"
    connOpen,       \* the connection conn to the other server is open
    buf,            \* the written part of buf; the bytes after it are still 0
    Version,        \* server.Version
    resp,           \* the name of the response the cycle's conn.Read returned
    outcome         \* how the cycle went, "none" before it has got anywhere

cfgVars == <<maxConns, whitelistPorts, SocksProxyAddr>>
admVars == <<connections, req, pc, ret, doneCh, decTask, mutex,
             calls, failed, connSeen, decIssued, burst>>
fwdVars == <<usage, chReq, chPc, dest, rejected, dialed, accepted, chOpen,
             dconnOpen, taskPc, copied, usageFailed>>
mimVars == <<shouldCopyVersionString, mimPc, connOpen, buf, Version, resp, outcome>>
vars == <<cfgVars, admVars, fwdVars, mimVars>>

\* ------------------------------------------------------------------ admission
User(a) == Requests[req[a]].user
Key(a) == Requests[req[a]].key
HasDone(a) == Requests[req[a]].hasDone

\* Lines 295-296: the member looked up in "ssh-server:users".
UserString(user, key) ==
    Trim(UserName(user) \o <<":", ":">> \o MarshalAuthorizedKey(key), {"\n", "\t", "\r"})

\* The integer a counter field stands for (an absent field counts as 0).
CounterValue(u) == ParseInt(connections[u], 32).val

InFlight(a) == pc[a] \in {"sismember", "lock", "hget", "hincr"}

\* The request is one that the membership step lets through.
Passes(r) ==
    /\ Len(UserName(Requests[r].user)) = 36
    /\ UserString(Requests[r].user, Requests[r].key) \in sshUsers
    /\ Requests[r].hasDone

\* Line 291: the user name "is a UUID" when it has 36 characters.
IsUuidAtMost(user) == Len(UserName(user)) <= 36
IsUuid(user) == Len(UserName(user)) = 36

\* Line 301: the conditions under which the handler returns false.
NotAuthorizedErrOnly(err, res, doneNil) == err \/ doneNil
NotAuthorized(err, res, doneNil) == err \/ ~res \/ doneNil

\* Line 312: the counter was parsed and has reached the limit.
OverLimitOrUnparsed(parsed) == parsed.err \/ parsed.val >= maxConns
OverLimitStrict(parsed) == ~parsed.err /\ parsed.val > maxConns
OverLimit(parsed) == ~parsed.err /\ parsed.val >= maxConns

Return(a, decision) ==
    /\ pc' = [pc EXCEPT ![a] = "returned"]
    /\ ret' = [ret EXCEPT ![a] = decision]

\* Lines 289-294: the substrate calls the handler; the length test.
Begin(a, r) ==
    /\ pc[a] = "idle"
    /\ IF a = 1 THEN TRUE ELSE pc[a - 1] # "idle"
    /\ req' = [req EXCEPT ![a] = r]
    /\ IF ~IsUuid(Requests[r].user)
       THEN Return(a, "deny")
       ELSE /\ pc' = [pc EXCEPT ![a] = "sismember"]
            /\ ret' = ret
    /\ burst' = [burst EXCEPT ![a] =
            /\ Passes(r)
            /\ CounterValue(Requests[r].user) = maxConns - 1
            /\ \A b \in Attempts \ {a} :
                   (InFlight(b) /\ Passes(req[b]) /\ User(b) = Requests[r].user)
                       => burst[b]]
    /\ UNCHANGED <<connections, doneCh, decTask, mutex, calls, failed,
                   connSeen, decIssued, cfgVars, fwdVars, mimVars>>

\* Lines 297-304: the membership test and the Done channel test.
SIsMember(a) ==
    /\ pc[a] = "sismember"
    /\ \E ok \in BOOLEAN :
        LET res == ok /\ UserString(User(a), Key(a)) \in sshUsers
        IN  /\ calls' = [calls EXCEPT ![a] = @ \cup {"SIsMember"}]
            /\ failed' = [failed EXCEPT ![a] = IF ok THEN @ ELSE @ \cup {"SIsMember"}]
            /\ IF NotAuthorized(~ok, res, ~HasDone(a))
               THEN Return(a, "deny")
               ELSE /\ pc' = [pc EXCEPT ![a] = "lock"]
                    /\ ret' = ret
    /\ UNCHANGED <<connections, req, doneCh, decTask, mutex, connSeen,
                   decIssued, burst, cfgVars, fwdVars, mimVars>>

\* Line 305: userConnectionCountMutex.Lock().
LockWithoutWaiting(a) ==
    /\ pc[a] = "lock"
    /\ mutex' = a
    /\ pc' = [pc EXCEPT ![a] = "hget"]
    /\ UNCHANGED <<connections, req, ret, doneCh, decTask, calls, failed,
                   connSeen, decIssued, burst, cfgVars, fwdVars, mimVars>>

Lock(a) ==
    /\ pc[a] = "lock"
    /\ mutex = 0
    /\ mutex' = a
    /\ pc' = [pc EXCEPT ![a] = "hget"]
    /\ UNCHANGED <<connections, req, ret, doneCh, decTask, calls, failed,
                   connSeen, decIssued, burst, cfgVars, fwdVars, mimVars>>

\* Lines 307-316: read the counter (the error is dropped), parse it, compare
\* it with the limit; the deferred Unlock runs on return.
HGetKeepsLock(a) ==
    /\ pc[a] = "hget"
    /\ \E ok \in BOOLEAN :
        LET connCntStr == IF ok THEN connections[User(a)] ELSE <<>>
            parsed == ParseInt(connCntStr, 32)
        IN  /\ calls' = [calls EXCEPT ![a] = @ \cup {"HGet"}]
            /\ failed' = [failed EXCEPT ![a] = IF ok THEN @ ELSE @ \cup {"HGet"}]
            /\ connSeen' = [connSeen EXCEPT ![a] = connections[User(a)]]
            /\ IF OverLimit(parsed)
               THEN Return(a, "deny")
               ELSE /\ pc' = [pc EXCEPT ![a] = "hincr"]
                    /\ ret' = ret
    /\ UNCHANGED <<connections, req, doneCh, decTask, decIssued, burst, mutex,
                   cfgVars, fwdVars, mimVars>>

HGet(a) ==
    /\ pc[a] = "hget"
    /\ \E ok \in BOOLEAN :
        LET connCntStr == IF ok THEN connections[User(a)] ELSE <<>>
            parsed == ParseInt(connCntStr, 32)
        IN  /\ calls' = [calls EXCEPT ![a] = @ \cup {"HGet"}]
            /\ failed' = [failed EXCEPT ![a] = IF ok THEN @ ELSE @ \cup {"HGet"}]
            /\ connSeen' = [connSeen EXCEPT ![a] = connections[User(a)]]
            /\ IF OverLimit(parsed)
               THEN /\ Return(a, "deny")
                    /\ mutex' = 0
               ELSE /\ pc' = [pc EXCEPT ![a] = "hincr"]
                    /\ UNCHANGED <<ret, mutex>>
    /\ UNCHANGED <<connections, req, doneCh, decTask, decIssued, burst,
                   cfgVars, fwdVars, mimVars>>

\* Lines 317-328: increment the counter; on success start the goroutine that
\* waits for the Done channel, and admit; the deferred Unlock runs on return.
HIncrByPartialAdmit(a) ==
    /\ pc[a] = "hincr"
    /\ \E reached \in BOOLEAN :
        LET reply == RedisIncr(connections[User(a)], 1)
            ok == reached /\ ~reply.err
        IN
        /\ calls' = [calls EXCEPT ![a] = @ \cup {"HIncrBy"}]
        /\ failed' = [failed EXCEPT ![a] = IF ok THEN @ ELSE @ \cup {"HIncrBy"}]
        /\ decTask' = [decTask EXCEPT ![a] = "waiting"]
        /\ IF ok
           THEN /\ connections' = [connections EXCEPT ![User(a)] = reply.field]
                /\ Return(a, "admit")
           ELSE /\ UNCHANGED connections
                /\ Return(a, "deny")
    /\ mutex' = 0
    /\ UNCHANGED <<req, doneCh, connSeen, decIssued, burst, cfgVars, fwdVars, mimVars>>

HIncrBy(a) ==
    /\ pc[a] = "hincr"
    /\ \E reached \in BOOLEAN :
        LET reply == RedisIncr(connections[User(a)], 1)
            ok == reached /\ ~reply.err
        IN
        /\ calls' = [calls EXCEPT ![a] = @ \cup {"HIncrBy"}]
        /\ failed' = [failed EXCEPT ![a] = IF ok THEN @ ELSE @ \cup {"HIncrBy"}]
        /\ IF ok
           THEN /\ connections' = [connections EXCEPT ![User(a)] = reply.field]
                /\ decTask' = [decTask EXCEPT ![a] = "waiting"]
                /\ Return(a, "admit")
           ELSE /\ UNCHANGED <<connections, decTask>>
                /\ Return(a, "deny")
    /\ mutex' = 0
    /\ UNCHANGED <<req, doneCh, connSeen, decIssued, burst, cfgVars, fwdVars, mimVars>>

\* The substrate cancels the connection's context (client close, error,
\* idle or absolute timeout, shutdown): ctx.Done() is closed.
SessionEnd(a) ==
    /\ pc[a] # "idle"
    /\ HasDone(a)
    /\ ~doneCh[a]
    /\ doneCh' = [doneCh EXCEPT ![a] = TRUE]
    /\ UNCHANGED <<connections, req, pc, ret, decTask, mutex, calls,
                   failed, connSeen, decIssued, burst, cfgVars, fwdVars, mimVars>>

\* Lines 322-326: the goroutine receives from doneCh and decrements.
DecrementBody(a) ==
    /\ \E reached \in BOOLEAN :
        LET reply == RedisIncr(connections[User(a)], -1)
            ok == reached /\ ~reply.err
        IN
        /\ calls' = [calls EXCEPT ![a] = @ \cup {"HIncrBy-1"}]
        /\ failed' = [failed EXCEPT ![a] = IF ok THEN @ ELSE @ \cup {"HIncrBy-1"}]
        /\ connections' = IF ok
                          THEN [connections EXCEPT ![User(a)] = reply.field]
                          ELSE connections
    /\ decTask' = [decTask EXCEPT ![a] = "finished"]
    /\ decIssued' = [decIssued EXCEPT ![a] = @ + 1]
    /\ burst' = [b \in Attempts |-> burst[b] /\ (req[b] = 0 \/ User(b) # User(a))]
    /\ UNCHANGED <<req, pc, ret, doneCh, mutex, connSeen, cfgVars, fwdVars, mimVars>>

DecrementWithoutWaiting(a) ==
    /\ decTask[a] = "waiting"
    /\ DecrementBody(a)

Decrement(a) ==
    /\ decTask[a] = "waiting"
    /\ doneCh[a]
    /\ DecrementBody(a)

\* Line 274 clears "ssh-server:connections" before the server is built.
HandlerInit ==
    /\ req = [a \in Attempts |-> 0]
    /\ pc = [a \in Attempts |-> "idle"]
    /\ ret = [a \in Attempts |-> "none"]
    /\ doneCh = [a \in Attempts |-> FALSE]
    /\ decTask = [a \in Attempts |-> "none"]
    /\ mutex = 0
    /\ calls = [a \in Attempts |-> {}]
    /\ failed = [a \in Attempts |-> {}]
    /\ connSeen = [a \in Attempts |-> <<"unread">>]
    /\ decIssued = [a \in Attempts |-> 0]
    /\ burst = [a \in Attempts |-> FALSE]

AdmInit ==
    /\ connections = [u \in Identities |-> NoField]
    /\ HandlerInit

\* ----------------------------------------------------------------- forwarding
ChUser(c) == ForwardRequests[chReq[c]].user

\* Lines 277-284.
LocalPortForwardingCallback(dhost, dport) ==
    IF ~isLocalIP(dhost) THEN TRUE
    ELSE IF containsNumber(whitelistPorts, dport) THEN TRUE
    ELSE FALSE

\* Line 85: the condition under which the SOCKS5 dialer is used.
UseProxy(destination) == Len(SocksProxyAddr) # 0 /\ ~isLocalIP(destination)

Reject(c, reason) ==
    /\ rejected' = [rejected EXCEPT ![c] = reason]
    /\ chPc' = [chPc EXCEPT ![c] = "end"]

\* Lines 57-80: unmarshal the payload, resolve the destination, ask the
\* forwarding callback, build "host:port".
ChannelOpen(c, r) ==
    /\ chPc[c] = "idle"
    /\ IF c = 1 THEN TRUE ELSE chPc[c - 1] # "idle"
    /\ chReq' = [chReq EXCEPT ![c] = r]
    /\ LET d == ForwardRequests[r]
           ip == ResolveIPAddr(d.DestAddr)
       IN  IF ~d.wellFormed
           THEN Reject(c, "error parsing forward data") /\ dest' = dest
           ELSE IF ip = NoIP
           THEN Reject(c, "cannot resolve the said address") /\ dest' = dest
           ELSE IF ~LocalPortForwardingCallback(ip, d.DestPort)
           THEN Reject(c, "illegal address") /\ dest' = [dest EXCEPT ![c] = ip]
           ELSE /\ dest' = [dest EXCEPT ![c] = JoinHostPort(ip, FormatInt(d.DestPort))]
                /\ chPc' = [chPc EXCEPT ![c] = "dial"]
                /\ rejected' = rejected
    /\ UNCHANGED <<usage, dialed, accepted, chOpen, dconnOpen, taskPc, copied,
                   usageFailed, cfgVars, admVars, mimVars>>

\* Lines 82-102: dial through the SOCKS5 proxy or directly.
Dial(c) ==
    /\ chPc[c] = "dial"
    /\ dialed' = [dialed EXCEPT ![c] = IF UseProxy(dest[c]) THEN "proxy" ELSE "direct"]
    /\ \E ok \in BOOLEAN :
        IF ok
        THEN /\ dconnOpen' = [dconnOpen EXCEPT ![c] = TRUE]
             /\ chPc' = [chPc EXCEPT ![c] = "accept"]
             /\ rejected' = rejected
        ELSE /\ Reject(c, "connection failed")
             /\ dconnOpen' = dconnOpen
    /\ UNCHANGED <<usage, chReq, dest, accepted, chOpen, taskPc, copied,
                   usageFailed, cfgVars, admVars, mimVars>>

\* Lines 104-124: accept the channel and start the two relay goroutines; a
\* failed Accept closes dconn and ends the handler.
AcceptKeepsConn(c) ==
    /\ chPc[c] = "accept"
    /\ \E ok \in BOOLEAN :
        IF ok
        THEN /\ accepted' = [accepted EXCEPT ![c] = TRUE]
             /\ chOpen' = [chOpen EXCEPT ![c] = TRUE]
             /\ taskPc' = [taskPc EXCEPT ![c] = [dir \in Directions |-> "copy"]]
             /\ chPc' = [chPc EXCEPT ![c] = "relay"]
             /\ dconnOpen' = dconnOpen
        ELSE /\ chPc' = [chPc EXCEPT ![c] = "end"]
             /\ UNCHANGED <<accepted, chOpen, taskPc, dconnOpen>>
    /\ UNCHANGED <<usage, chReq, dest, rejected, dialed, copied, usageFailed,
                   cfgVars, admVars, mimVars>>

Accept(c) ==
    /\ chPc[c] = "accept"
    /\ \E ok \in BOOLEAN :
        IF ok
        THEN /\ accepted' = [accepted EXCEPT ![c] = TRUE]
             /\ chOpen' = [chOpen EXCEPT ![c] = TRUE]
             /\ taskPc' = [taskPc EXCEPT ![c] = [dir \in Directions |-> "copy"]]
             /\ chPc' = [chPc EXCEPT ![c] = "relay"]
             /\ dconnOpen' = dconnOpen
        ELSE /\ dconnOpen' = [dconnOpen EXCEPT ![c] = FALSE]
             /\ chPc' = [chPc EXCEPT ![c] = "end"]
             /\ UNCHANGED <<accepted, chOpen, taskPc>>
    /\ UNCHANGED <<usage, chReq, dest, rejected, dialed, copied, usageFailed,
                   cfgVars, admVars, mimVars>>

\* Lines 114, 121: io.Copy moves one more byte; it needs both ends open.
CopyByte(c, dir) ==
    /\ taskPc[c][dir] = "copy"
    /\ chOpen[c] /\ dconnOpen[c]
    /\ copied[c][dir] < MaxBytes
    /\ copied' = [copied EXCEPT ![c][dir] = @ + 1]
    /\ UNCHANGED <<usage, chReq, chPc, dest, rejected, dialed, accepted, chOpen,
                   dconnOpen, taskPc, usageFailed, cfgVars, admVars, mimVars>>

\* Lines 114, 121: io.Copy returns, on EOF or on an error (of the peer, of
\* the network, or because an end was closed); the error is dropped.
CopyEnd(c, dir) ==
    /\ taskPc[c][dir] = "copy"
    /\ taskPc' = [taskPc EXCEPT ![c][dir] = "incr"]
    /\ UNCHANGED <<usage, chReq, chPc, dest, rejected, dialed, accepted, chOpen,
                   dconnOpen, copied, usageFailed, cfgVars, admVars, mimVars>>

\* io.Copy cannot go on once an end it reads from or writes to is closed:
\* its Read or Write returns an error, and io.Copy returns.
CopyUnblocked(c, dir) ==
    /\ ~chOpen[c] \/ ~dconnOpen[c]
    /\ CopyEnd(c, dir)

\* Lines 114, 121: result, the number of bytes the goroutine's own io.Copy
\* has written.
CopyResultOfDown(c, dir) == copied[c]["down"]
CopyResult(c, dir) == copied[c][dir]

\* Lines 115-116, 122-123: add the bytes copied to the user's usage field;
\* the result of the call is dropped.
UsageIncr(c, dir) ==
    /\ taskPc[c][dir] = "incr"
    /\ \E reached \in BOOLEAN :
        LET reply == RedisIncr(usage[ChUser(c)], CopyResult(c, dir))
            ok == reached /\ ~reply.err
        IN  /\ usage' = IF ok THEN [usage EXCEPT ![ChUser(c)] = reply.field] ELSE usage
            /\ usageFailed' = [usageFailed EXCEPT ![c][dir] = ~ok]
    /\ taskPc' = [taskPc EXCEPT ![c][dir] = "close"]
    /\ UNCHANGED <<chReq, chPc, dest, rejected, dialed, accepted, chOpen,
                   dconnOpen, copied, cfgVars, admVars, mimVars>>

\* Lines 112-113, 119-120: the deferred dconn.Close() and ch.Close() run when
\* the goroutine's function returns.
ReturnWithoutClose(c, dir) ==
    /\ taskPc[c][dir] = "close"
    /\ taskPc' = [taskPc EXCEPT ![c][dir] = "done"]
    /\ UNCHANGED <<usage, chReq, chPc, dest, rejected, dialed, accepted, copied,
                   chOpen, dconnOpen, usageFailed, cfgVars, admVars, mimVars>>

CloseBoth(c, dir) ==
    /\ taskPc[c][dir] = "close"
    /\ dconnOpen' = [dconnOpen EXCEPT ![c] = FALSE]
    /\ chOpen' = [chOpen EXCEPT ![c] = FALSE]
    /\ taskPc' = [taskPc EXCEPT ![c][dir] = "done"]
    /\ UNCHANGED <<usage, chReq, chPc, dest, rejected, dialed, accepted, copied,
                   usageFailed, cfgVars, admVars, mimVars>>

FwdInit ==
    /\ usage = [u \in Identities |-> NoField]
    /\ chReq = [c \in Channels |-> 0]
    /\ chPc = [c \in Channels |-> "idle"]
    /\ dest = [c \in Channels |-> <<>>]
    /\ rejected = [c \in Channels |-> ""]
    /\ dialed = [c \in Channels |-> ""]
    /\ accepted = [c \in Channels |-> FALSE]
    /\ chOpen = [c \in Channels |-> FALSE]
    /\ dconnOpen = [c \in Channels |-> FALSE]
    /\ taskPc = [c \in Channels |-> [dir \in Directions |-> "none"]]
    /\ copied = [c \in Channels |-> [dir \in Directions |-> 0]]
    /\ usageFailed = [c \in Channels |-> [dir \in Directions |-> FALSE]]

\* -------------------------------------------------------------------- mimicry
\* Line 341: buf := make([]byte, 256).
BufLen == 256

\* The byte 0.
NUL == "NUL"

\* Line 369: the prefix of an SSH version string.
VersionPrefix == <<"S", "S", "H", "-", "2", ".", "0", "-">>

\* Lines 250-257, 332: DEFAULT_SERVER_VERSION without its prefix.
defaultVersionString == <<"O", "l", "d">>

\* What the other server's connection can deliver to one Read: a whole
\* version line, shorter and longer ones, a line that ends in a space, the
\* first bytes only of a line, a line that is no version string, and more
\* bytes than the buffer holds.
Response(name) ==
    CASE name = "reference" ->
            VersionPrefix \o <<"O", "p", "e", "n", "S", "S", "H", "_", "9", ".", "6", "\r", "\n">>
      [] name = "short" -> VersionPrefix \o <<"A", "\r", "\n">>
      [] name = "spaced" -> VersionPrefix \o <<"B", " ", "\r", "\n">>
      [] name = "partial" -> <<"S", "S", "H">>
      [] name = "garbage" ->
            <<"x", "x", "x", "-", "2", ".", "0", "-", "S", "r", "v", "\r", "\n">>
      [] name = "full" -> Rep("A", BufLen)
      [] OTHER -> <<>>

Responses == {"reference", "short", "spaced", "partial", "garbage", "full"}

\* Line 351: conn.Read(buf) stores the n bytes it received in buf[0:n] and
\* leaves the rest of buf as it was.
ReadInto(b, r) == r \o SubSeq(b, Len(r) + 1, Len(b))

\* The BufLen bytes of buf.
Contents(b) == b \o Rep(NUL, BufLen - Len(b))

\* Lines 360-366: the bytes of buf before its first 0 byte.
UntilNull(s) ==
    LET zeros == {i \in 1..Len(s) : s[i] = NUL}
    IN  IF zeros = {} THEN s
        ELSE SubSeq(s, 1, (CHOOSE i \in zeros : \A j \in zeros : i <= j) - 1)

\* strings.HasPrefix.
HasPrefix(s, prefix) == Len(s) >= Len(prefix) /\ SubSeq(s, 1, Len(prefix)) = prefix

\* Lines 360-368: result before the prefix test.
ResultOf(b) == Trim(UntilNull(Contents(b)), {"\n", "\t", "\r"})

\* Lines 336-340: the goroutine returns at once when the feature is off.
CheckEnabled ==
    /\ mimPc = "start"
    /\ mimPc' = IF ~shouldCopyVersionString THEN "exited" ELSE "dial"
    /\ UNCHANGED <<shouldCopyVersionString, connOpen, buf, Version, resp, outcome,
                   cfgVars, admVars, fwdVars>>

\* Lines 343-350: dial the other server; a failed dial goes to the sleep.
NetDial ==
    /\ mimPc = "dial"
    /\ \E ok \in BOOLEAN :
        IF ok
        THEN /\ connOpen' = TRUE
             /\ mimPc' = "read"
             /\ outcome' = "none"
        ELSE /\ connOpen' = connOpen
             /\ mimPc' = "sleep"
             /\ outcome' = "dial failed"
    /\ resp' = "none"
    /\ UNCHANGED <<shouldCopyVersionString, buf, Version, cfgVars, admVars, fwdVars>>

\* Lines 351-358: one Read into buf. An error, or n = len(buf), goes to the
\* sleep with conn still open; otherwise conn is closed.
ConnRead ==
    /\ mimPc = "read"
    /\ \/ /\ outcome' = "read error"
          /\ mimPc' = "sleep"
          /\ UNCHANGED <<buf, resp, connOpen>>
       \/ \E r \in Responses :
            LET n == Len(Response(r))
            IN  /\ buf' = ReadInto(buf, Response(r))
                /\ resp' = r
                /\ IF n = BufLen
                   THEN /\ outcome' = "full"
                        /\ mimPc' = "sleep"
                        /\ connOpen' = connOpen
                   ELSE /\ outcome' = "read"
                        /\ mimPc' = "parse"
                        /\ connOpen' = FALSE
    /\ UNCHANGED <<shouldCopyVersionString, Version, cfgVars, admVars, fwdVars>>

\* Lines 359-377: cut buf at its first 0 byte, trim, test the prefix, and
\* store what follows the prefix in server.Version under versionStringMutex.
Parse ==
    /\ mimPc = "parse"
    /\ LET result == ResultOf(buf)
       IN  IF ~HasPrefix(result, VersionPrefix)
           THEN /\ outcome' = "bad prefix"
                /\ Version' = Version
           ELSE /\ outcome' = "installed"
                /\ Version' = SubSeq(result, 9, Len(result))
    /\ mimPc' = "sleep"
    /\ UNCHANGED <<shouldCopyVersionString, connOpen, buf, resp, cfgVars, admVars, fwdVars>>

\* Lines 348-349, 354-356, 371-372, 378: time.Sleep(delayAmount), then
\* conn.Close() on the path of line 355, then the next iteration.
Sleep ==
    /\ mimPc = "sleep"
    /\ connOpen' = FALSE
    /\ mimPc' = "dial"
    /\ UNCHANGED <<shouldCopyVersionString, buf, Version, resp, outcome,
                   cfgVars, admVars, fwdVars>>

\* Lines 332-341: the server is built with the default version string, and
\* the goroutine has allocated nothing yet.
MimInit ==
    /\ mimPc = "start"
    /\ connOpen = FALSE
    /\ buf = <<>>
    /\ Version = defaultVersionString
    /\ resp = "none"
    /\ outcome = "none"

\* Lines 231-248: the configuration read at startup. The admission handler
\* reads maxConns only, the forwarding handler the whitelist and the proxy
\* address only.
AdmCfgInit ==
    /\ maxConns \in MaxConnsValues
    /\ whitelistPorts = <<>>
    /\ SocksProxyAddr = <<>>

FwdCfgInit ==
    /\ maxConns = CHOOSE n \in MaxConnsValues : TRUE
    /\ whitelistPorts \in WhitelistValues
    /\ SocksProxyAddr \in SocksProxyValues

\* The admission of connections; no channel is opened.
Init ==
    /\ AdmCfgInit
    /\ AdmInit
    /\ FwdInit
    /\ shouldCopyVersionString = FALSE
    /\ MimInit

\* The channels of admitted sessions.
InitFwd ==
    /\ FwdCfgInit
    /\ AdmInit
    /\ FwdInit
    /\ shouldCopyVersionString = FALSE
    /\ MimInit

\* The version-copy goroutine, with COPY_SERVER_VERSION set or not (lines
\* 258-262).
InitMimic ==
    /\ maxConns = CHOOSE n \in MaxConnsValues : TRUE
    /\ whitelistPorts = <<>>
    /\ SocksProxyAddr = <<>>
    /\ AdmInit
    /\ FwdInit
    /\ shouldCopyVersionString \in BOOLEAN
    /\ MimInit

NextMimic ==
    \/ CheckEnabled
    \/ NetDial
    \/ ConnRead
    \/ Parse
    \/ Sleep

SpecMimic == InitMimic /\ [][NextMimic]_vars

NextFwd ==
    \/ \E c \in Channels : \E r \in 1..Len(ForwardRequests) : ChannelOpen(c, r)
    \/ \E c \in Channels : Dial(c)
    \/ \E c \in Channels : Accept(c)
    \/ \E c \in Channels : \E dir \in Directions : CopyByte(c, dir)
    \/ \E c \in Channels : \E dir \in Directions : CopyEnd(c, dir)
    \/ \E c \in Channels : \E dir \in Directions : UsageIncr(c, dir)
    \/ \E c \in Channels : \E dir \in Directions : CloseBoth(c, dir)

SpecFwd == InitFwd /\ [][NextFwd]_vars

\* The relay of the channels under one configuration (the relay goroutines
\* read none of it): no whitelisted port, no proxy.
InitRelay ==
    /\ maxConns = CHOOSE n \in MaxConnsValues : TRUE
    /\ whitelistPorts = <<>>
    /\ SocksProxyAddr = <<>>
    /\ AdmInit
    /\ FwdInit
    /\ shouldCopyVersionString = FALSE
    /\ MimInit

\* The relay goroutines are scheduled: a goroutine whose io.Copy has returned
\* makes its HIncrBy call, which returns (go-redis gives up after its
\* timeouts), and then runs its deferred Close calls; and io.Copy returns once
\* an end is closed. Nothing makes a peer send EOF while both ends are open.
FairSpecFwd ==
    /\ InitRelay /\ [][NextFwd]_vars
    /\ \A c \in Channels : \A dir \in Directions :
           /\ WF_vars(CopyUnblocked(c, dir))
           /\ WF_vars(UsageIncr(c, dir))
           /\ WF_vars(CloseBoth(c, dir))

Next ==
    \/ \E a \in Attempts : \E r \in 1..Len(Requests) : Begin(a, r)
    \/ \E a \in Attempts : SIsMember(a)
    \/ \E a \in Attempts : Lock(a)
    \/ \E a \in Attempts : HGet(a)
    \/ \E a \in Attempts : HIncrBy(a)
    \/ \E a \in Attempts : SessionEnd(a)
    \/ \E a \in Attempts : Decrement(a)

Spec == Init /\ [][Next]_vars

\* The goroutine of lines 322-326 is runnable once doneCh is closed, and the
\* Go scheduler runs every runnable goroutine.
FairSpec == Spec /\ \A a \in Attempts : WF_vars(Decrement(a))

\* The store is shared with the programs that manage the users: what the
\* counter field of one identity can hold when the handler first reads it,
\* if another client of the store has written it after the reset of line
\* 274: nothing, text that is no integer, and 2^31, an integer for redis
\* that does not fit the 32 bits asked of ParseInt at line 311.
StoredValues ==
    {NoField, <<"x">>, <<"2", "1", "4", "7", "4", "8", "3", "6", "4", "8">>}

InitForeign ==
    /\ maxConns = CHOOSE n \in MaxConnsValues : TRUE
    /\ whitelistPorts = <<>>
    /\ SocksProxyAddr = <<>>
    /\ connections \in {[u \in Identities |-> IF u = "alice" THEN v ELSE NoField] :
                            v \in StoredValues}
    /\ HandlerInit
    /\ FwdInit
    /\ shouldCopyVersionString = FALSE
    /\ MimInit

SpecForeign == InitForeign /\ [][Next]_vars

\* A handler call that holds the mutex goes on (its store calls return), and
\* a call blocked in Lock gets the mutex once it is free and stays free.
\* Nothing is assumed of the sessions: they may stay open for ever.
FairSpecLock ==
    /\ Spec
    /\ \A a \in Attempts : WF_vars(Lock(a)) /\ WF_vars(HGet(a)) /\ WF_vars(HIncrBy(a))

\* ---------------------------------------------------------------- claims
Started(a) == req[a] # 0
AttemptsOf(u) == {a \in Attempts : Started(a) /\ User(a) = u}
Burst(u) == {a \in AttemptsOf(u) : burst[a]}
NoStoreFailure(u) == \A a \in AttemptsOf(u) : failed[a] = {}
Live(u) == {a \in AttemptsOf(u) : ret[a] = "admit" /\ decIssued[a] = 0}

\* C1: when two or more admission attempts of one authorized identity run
\* together from a counter of maxConns-1, with no store call failing and no
\* session of the identity ending meanwhile, then once all have returned
\* exactly one of them was admitted and the counter is exactly maxConns.
C1_ExactlyOneOfBurstAdmitted ==
    \A u \in Identities :
        ( /\ Cardinality(Burst(u)) >= 2
          /\ NoStoreFailure(u)
          /\ \A a \in Burst(u) : pc[a] = "returned" )
        => /\ Cardinality({a \in Burst(u) : ret[a] = "admit"}) = 1
           /\ \A a \in Burst(u) : ret[a] \in {"admit", "deny"}
           /\ connections[u] = FormatInt(maxConns)

C1_Witness ==
    \E u \in Identities :
        /\ Cardinality(Burst(u)) >= 2
        /\ NoStoreFailure(u)
        /\ \A a \in Burst(u) : pc[a] = "returned"
        /\ \E a \in Burst(u) : ret[a] = "deny"

\* C2 (safety part): the decrement is issued at most once per attempt, only for an attempt
\* that was admitted and only after its Done channel was closed; a denied
\* attempt has no decrement task and no decrement; an admitted attempt has the
\* task, which has finished exactly when the one decrement was issued; and
\* while no store call of an identity has failed, its counter is the number
\* of its admitted sessions whose decrement has not been issued.
DecrementDiscipline ==
    /\ \A a \in Attempts :
        /\ decIssued[a] <= 1
        /\ decIssued[a] = 1 => (ret[a] = "admit" /\ doneCh[a])
        /\ ret[a] # "admit" =>
              (decTask[a] = "none" /\ decIssued[a] = 0 /\ "HIncrBy-1" \notin calls[a])
        /\ ret[a] = "admit" =>
              /\ decTask[a] \in {"waiting", "finished"}
              /\ decTask[a] = "finished" <=> decIssued[a] = 1
    /\ \A u \in Identities :
        NoStoreFailure(u) =>
            connections[u] \in
                IF Cardinality(Live(u)) = 0 /\ \A a \in AttemptsOf(u) : ret[a] # "admit"
                THEN {NoField}
                ELSE {FormatInt(Cardinality(Live(u)))}

\* C2 (continued): the discipline above holds always, and once the Done
\* channel of an admitted attempt is closed its decrement is issued.
C2_DecrementOncePerAdmit ==
    /\ []DecrementDiscipline
    /\ \A a \in Attempts :
           (decTask[a] = "waiting" /\ doneCh[a]) ~> (decIssued[a] = 1)

\* A session admitted at counter 0 has ended and its decrement has run: the
\* counter is back to 0; and a denied attempt's session has ended as well.
C2_Witness ==
    \E a \in Attempts :
        /\ Started(a) /\ ret[a] = "admit" /\ connSeen[a] = NoField
        /\ decIssued[a] = 1 /\ failed[a] = {}
        /\ connections[User(a)] = FormatInt(0)
        /\ \E b \in Attempts : ret[b] = "deny" /\ doneCh[b]

\* C3: an attempt during which a store call (membership test, counter read,
\* increment) failed is never admitted.
C3_FailClosed ==
    \A a \in Attempts :
        ret[a] = "admit" => failed[a] \cap {"SIsMember", "HGet", "HIncrBy"} = {}

\* C4: an attempt whose read of the counter returned a value at or above
\* maxConns has returned deny, issued no increment and has no decrement task.
C4_DenyAtLimit ==
    \A a \in Attempts :
        ( /\ "HGet" \in calls[a] /\ "HGet" \notin failed[a]
          /\ ~ParseInt(connSeen[a], 32).err
          /\ ParseInt(connSeen[a], 32).val >= maxConns )
        => /\ pc[a] = "returned" /\ ret[a] = "deny"
           /\ "HIncrBy" \notin calls[a]
           /\ decTask[a] = "none" /\ decIssued[a] = 0

C4_Witness ==
    \E a \in Attempts :
        /\ "HGet" \in calls[a] /\ "HGet" \notin failed[a]
        /\ connSeen[a] = FormatInt(maxConns)
        /\ ret[a] = "deny"

\* C5: an attempt whose user name is not 36 characters long is denied at
\* once, with no store operation and no decrement task.
C5_BadIdentityNoStoreCall ==
    \A a \in Attempts :
        (Started(a) /\ Len(UserName(User(a))) # 36)
        => /\ pc[a] = "returned" /\ ret[a] = "deny"
           /\ calls[a] = {} /\ failed[a] = {}
           /\ decTask[a] = "none" /\ decIssued[a] = 0

C5_Witness ==
    \E a \in Attempts :
        /\ Started(a) /\ Len(UserName(User(a))) # 36
        /\ ret[a] = "deny" /\ doneCh[a]

\* The entry of the authorization set that stands for (identity, key).
Entry(u, key) == UserName(u) \o <<":", ":">> \o CanonicalKey(key)

\* C6: an attempt whose entry identity::key is not in the authorization set
\* is never admitted, is denied once it has returned, issues no store call
\* beyond the membership test and has no decrement task.
C6_UnauthorizedDenied ==
    \A a \in Attempts :
        (Started(a) /\ Entry(User(a), Key(a)) \notin sshUsers)
        => /\ ret[a] # "admit"
           /\ pc[a] = "returned" => ret[a] = "deny"
           /\ calls[a] \subseteq {"SIsMember"}
           /\ decTask[a] = "none" /\ decIssued[a] = 0

C6_Witness ==
    \E a \in Attempts :
        /\ Started(a) /\ Entry(User(a), Key(a)) \notin sshUsers
        /\ Len(UserName(User(a))) = 36
        /\ calls[a] = {"SIsMember"} /\ failed[a] = {}
        /\ ret[a] = "deny"

\* The address the request's destination resolved to, and the pairs
\* (channel, direction) of a user's relay tasks.
ChStarted(c) == chReq[c] # 0
Resolved(c) == ResolveIPAddr(ForwardRequests[chReq[c]].DestAddr)
Policed(c) ==
    ChStarted(c) /\ ForwardRequests[chReq[c]].wellFormed /\ Resolved(c) # NoIP

\* C7: a request whose resolved destination is classified local is never
\* rejected with "illegal address", whatever the port and the whitelist.
C7_LocalAlwaysPermitted ==
    \A c \in Channels :
        (Policed(c) /\ isLocalIP(Resolved(c))) => rejected[c] # "illegal address"

\* C8: a request whose resolved destination is classified non-local and whose
\* port is not in the whitelist is rejected with "illegal address" and is
\* never dialed.
C8_NonLocalNeedsWhitelistedPort ==
    \A c \in Channels :
        ( /\ Policed(c)
          /\ ~isLocalIP(Resolved(c))
          /\ ~containsNumber(whitelistPorts, ForwardRequests[chReq[c]].DestPort) )
        => /\ rejected[c] = "illegal address"
           /\ chPc[c] = "end"
           /\ dialed[c] = ""

\* C9: a dial goes through the SOCKS proxy exactly when a proxy address is
\* configured and the resolved destination is non-local, and is direct
\* otherwise.
C9_ProxyIffConfiguredAndNonLocal ==
    \A c \in Channels :
        dialed[c] # "" =>
            /\ dialed[c] \in {"proxy", "direct"}
            /\ dialed[c] = "proxy" <=>
                   (Len(SocksProxyAddr) # 0 /\ ~isLocalIP(Resolved(c)))

TasksOf(u) ==
    {t \in Channels \X Directions : ChStarted(t[1]) /\ ChUser(t[1]) = u}
Recorded(u) == {t \in TasksOf(u) : taskPc[t[1]][t[2]] \in {"close", "done"}}

RECURSIVE SumCopied(_)
SumCopied(T) ==
    IF T = {} THEN 0
    ELSE LET t == CHOOSE x \in T : TRUE
         IN  copied[t[1]][t[2]] + SumCopied(T \ {t})

\* C10: while no usage call of a user's channels has failed, the user's usage
\* field is the sum of the bytes copied by each relay task that has made its
\* call, each counted once: when both tasks of a channel have finished, the
\* field has grown by the bytes of both directions, in whatever order the
\* tasks ended.
C10_UsageIsSumOfCopies ==
    \A u \in Identities :
        (\A t \in TasksOf(u) : ~usageFailed[t[1]][t[2]]) =>
            usage[u] = IF Recorded(u) = {} THEN NoField
                       ELSE FormatInt(SumCopied(Recorded(u)))

\* Both tasks of a channel have finished; the one that ended first had
\* copied nothing, the other one had copied bytes.
C10_Witness ==
    \E c \in Channels :
        /\ \A dir \in Directions : taskPc[c][dir] = "done" /\ ~usageFailed[c][dir]
        /\ \E dir \in Directions : copied[c][dir] = 0
        /\ \E dir \in Directions : copied[c][dir] >= 1
        /\ usage[ChUser(c)] = FormatInt(copied[c]["down"] + copied[c]["up"])

\* What the claims on the version copy say of a response: its trailing 0
\* bytes removed, white space trimmed from both ends.
WhiteSpace == {" ", "\t", "\n", "\r"}
TrimmedResponse(r) == Trim(TrimRight(r, {NUL}), WhiteSpace)
ExpectedBanner(r) ==
    SubSeq(TrimmedResponse(r), Len(VersionPrefix) + 1, Len(TrimmedResponse(r)))

\* The cycle has read a response and has gone through the prefix test.
CycleParsed == mimPc = "sleep" /\ outcome \in {"installed", "bad prefix"}

\* C11: after a cycle whose Read returned a response that begins with
\* "SSH-2.0-", server.Version is that response with its trailing 0 bytes
\* removed, white space trimmed from both ends and the prefix stripped; for
\* the response "SSH-2.0-OpenSSH_9.6\r\n" it is "OpenSSH_9.6".
C11_BannerIsStrippedResponse ==
    (CycleParsed /\ HasPrefix(Response(resp), VersionPrefix))
    => /\ Version = ExpectedBanner(Response(resp))
       /\ resp = "reference" =>
              Version = <<"O", "p", "e", "n", "S", "S", "H", "_", "9", ".", "6">>

\* C12: server.Version is left as it was by every step of a cycle that does
\* not end in a valid response (feature off, failed dial, failed Read, Read
\* that fills buf, trimmed response without the prefix), and while the
\* feature is on the goroutine never exits: every such cycle goes to the
\* sleep and from there to the next dial.
C12_InvalidCycleKeepsBanner ==
    [][ /\ ~shouldCopyVersionString =>
              (Version' = Version /\ mimPc' \in {"start", "exited"})
        /\ (mimPc = "dial" /\ mimPc' # "read") =>
              (Version' = Version /\ mimPc' = "sleep")
        /\ (mimPc = "read" /\ mimPc' # "parse") =>
              (Version' = Version /\ mimPc' = "sleep")
        /\ (mimPc = "parse" /\ ~HasPrefix(TrimmedResponse(Response(resp)), VersionPrefix)) =>
              (Version' = Version /\ mimPc' = "sleep")
        /\ (shouldCopyVersionString /\ mimPc = "sleep") => mimPc' = "dial"
        /\ shouldCopyVersionString => mimPc' # "exited"
      ]_vars

\* What a first cycle, whose buf holds only 0 bytes, makes of a response.
FirstCycleResult(r) == ResultOf(ReadInto(<<>>, r))

\* C20: the version string a cycle installs is the one a first cycle reading
\* the same response installs, whatever the responses read in earlier cycles.
C20_BannerDependsOnlyOnCycleBytes ==
    (mimPc = "sleep" /\ outcome = "installed")
    => /\ HasPrefix(FirstCycleResult(Response(resp)), VersionPrefix)
       /\ Version = SubSeq(FirstCycleResult(Response(resp)), Len(VersionPrefix) + 1,
                           Len(FirstCycleResult(Response(resp))))

CopyEnded(c, dir) == taskPc[c][dir] \in {"incr", "close", "done"}
UsageCalled(c, dir) == taskPc[c][dir] \in {"close", "done"}

\* Both ends of the channel are closed and both goroutines have made their
\* usage call and have returned.
BothFinished(c) ==
    /\ ~chOpen[c] /\ ~dconnOpen[c]
    /\ \A d \in Directions : UsageCalled(c, d) /\ taskPc[c][d] = "done"

\* C13: once the io.Copy of either relay goroutine of an accepted channel has
\* returned, eventually ch and dconn are both closed and both goroutines have
\* made their usage call and have finished: the other goroutine's io.Copy
\* is unblocked by the close. (A copy that has ended stays ended and a
\* finished channel stays finished, so "ended leads to finished" is the same
\* as: from some point on, every channel with an ended copy is finished.)
C13_CopyEndTerminatesBoth ==
    <>[](\A c \in Channels :
            (\E dir \in Directions : CopyEnded(c, dir)) => BothFinished(c))

\* One goroutine has ended and has closed both ends while the other one is
\* still in its io.Copy, which only the close can end.
C13_Witness ==
    \E c \in Channels : \E d1, d2 \in Directions :
        /\ taskPc[c][d1] = "done"
        /\ taskPc[c][d2] = "copy"
        /\ ~chOpen[c] /\ ~dconnOpen[c]

\* C14: a relay goroutine closes ch and dconn after its io.Copy has returned
\* without waiting for the usage call: whenever the usage call of a goroutine
\* has returned, both ends are already closed.
C14_CloseDoesNotWaitForUsage ==
    \A c \in Channels : \A dir \in Directions :
        UsageCalled(c, dir) => (~chOpen[c] /\ ~dconnOpen[c])

\* The handler of the channel has ended at the failed Accept.
AcceptFailed(c) ==
    chPc[c] = "end" /\ rejected[c] = "" /\ dialed[c] # ""

\* C15: the stages parse, resolve, policy, dial, accept, relay run in this
\* order and a failed stage ends the handler: a malformed or unresolvable
\* request is rejected with its own reason; a channel rejected before the
\* dial is never dialed; a rejected channel is never accepted and has no
\* relay goroutine; an accepted channel was dialed and not rejected; after a
\* failed Accept dconn is closed and there is no relay goroutine; and a user
\* none of whose channels was accepted has no usage field.
C15_StagedPipeline ==
    /\ \A c \in Channels :
        /\ (ChStarted(c) /\ ~ForwardRequests[chReq[c]].wellFormed)
               => rejected[c] = "error parsing forward data"
        /\ (ChStarted(c) /\ ForwardRequests[chReq[c]].wellFormed /\ Resolved(c) = NoIP)
               => rejected[c] = "cannot resolve the said address"
        /\ rejected[c] \in {"error parsing forward data",
                            "cannot resolve the said address", "illegal address"}
               => (dialed[c] = "" /\ ~dconnOpen[c])
        /\ rejected[c] # ""
               => /\ chPc[c] = "end" /\ ~accepted[c] /\ ~dconnOpen[c]
                  /\ \A dir \in Directions : taskPc[c][dir] = "none" /\ copied[c][dir] = 0
        /\ accepted[c] => (rejected[c] = "" /\ dialed[c] # "")
        /\ (\E dir \in Directions : taskPc[c][dir] # "none") => accepted[c]
        /\ AcceptFailed(c)
               => /\ ~accepted[c] /\ ~dconnOpen[c] /\ ~chOpen[c]
                  /\ \A dir \in Directions : taskPc[c][dir] = "none" /\ copied[c][dir] = 0
    /\ \A u \in Identities :
        (\A c \in Channels : (ChStarted(c) /\ ChUser(c) = u) => ~accepted[c])
            => usage[u] = NoField

\* A dialed channel whose Accept failed.
C15_Witness ==
    \E c \in Channels :
        /\ AcceptFailed(c)
        /\ dialed[c] \in {"proxy", "direct"}
        /\ ~dconnOpen[c] /\ usage[ChUser(c)] = NoField

\* C16 (state part): an attempt whose increment failed has returned deny, has
\* no decrement task and no decrement is ever issued for it.
IncrementFailed(a) == "HIncrBy" \in failed[a]
NoPartialAdmit ==
    \A a \in Attempts :
        IncrementFailed(a) =>
            /\ pc[a] = "returned" /\ ret[a] = "deny"
            /\ decTask[a] = "none" /\ decIssued[a] = 0
            /\ "HIncrBy-1" \notin calls[a]

\* C16: the state part holds always, and the step in which the increment of
\* an attempt fails returns deny, leaves every counter as it was and starts
\* no decrement task.
C16_FailedIncrementLeavesNothing ==
    /\ []NoPartialAdmit
    /\ [][ \A a \in Attempts :
             (~IncrementFailed(a) /\ IncrementFailed(a)') =>
                 /\ ret'[a] = "deny"
                 /\ connections' = connections
                 /\ decTask' = decTask
         ]_vars

\* The increment of an attempt failed at a counter of 1, the attempt was
\* denied, its connection has ended, and the counter is still 1.
C16_Witness ==
    \E a \in Attempts :
        /\ IncrementFailed(a) /\ ret[a] = "deny" /\ doneCh[a]
        /\ "HGet" \notin failed[a] /\ connSeen[a] = FormatInt(1)
        /\ connections[User(a)] = FormatInt(1)

InCritical(a) == pc[a] \in {"hget", "hincr"}

\* C17 (state part): at most one attempt is between Lock and its return, it
\* is the holder of the mutex, and the mutex is free when no attempt is there.
MutualExclusion ==
    /\ Cardinality({a \in Attempts : InCritical(a)}) <= 1
    /\ \A a \in Attempts : InCritical(a) <=> mutex = a
    /\ mutex \in {0} \cup Attempts

\* C17: the state part holds always, and no attempt stays blocked in Lock:
\* from some point on no attempt is waiting for the mutex (an attempt that
\* has left Lock never comes back to it), whether or not the sessions of
\* the earlier attempts have ended.
C17_OneAttemptInCriticalSection ==
    /\ []MutualExclusion
    /\ <>[](\A a \in Attempts : pc[a] # "lock")

\* Two attempts have gone through the critical section, one admitted and one
\* denied at the limit, while the admitted session is still open.
C17_Witness ==
    \E a, b \in Attempts :
        /\ ret[a] = "admit" /\ ~doneCh[a]
        /\ ret[b] = "deny" /\ "HGet" \in calls[b] /\ "HIncrBy" \notin calls[b]
        /\ mutex = 0

\* The attempt's read of the counter succeeded and returned text that
\* ParseInt rejects.
ReadUnparsed(a) ==
    /\ "HGet" \in calls[a] /\ "HGet" \notin failed[a]
    /\ ParseInt(connSeen[a], 32).err

\* C18: an attempt whose read of the counter returned a value that cannot be
\* parsed is not denied by the limit check: it goes on to the increment, and
\* once it has returned it has made the increment call and was admitted
\* exactly when that call succeeded.
C18_UnparsedCounterSkipsLimit ==
    \A a \in Attempts :
        ReadUnparsed(a) =>
            /\ pc[a] \in {"hincr", "returned"}
            /\ pc[a] = "returned" =>
                  /\ "HIncrBy" \in calls[a]
                  /\ ret[a] = IF "HIncrBy" \in failed[a] THEN "deny" ELSE "admit"

\* The counter held a value that is no 32-bit integer; an attempt read it
\* and was admitted although a session of the identity, admitted the same
\* way, is still open and the limit is 1.
C18_Witness ==
    \E a, b \in Attempts :
        /\ a # b /\ ret[a] = "admit" /\ ret[b] = "admit"
        /\ User(a) = User(b) /\ ~doneCh[b]
        /\ ReadUnparsed(a) /\ connSeen[a] # NoField
        /\ maxConns = 1

\* The admitted attempts of an identity whose decrement has not been executed
\* (a decrement call that failed has decremented nothing).
Open(u) ==
    {a \in AttemptsOf(u) :
        ret[a] = "admit" /\ ~(decIssued[a] = 1 /\ "HIncrBy-1" \notin failed[a])}

\* C19: for every identity the connection counter (an absent field counting
\* as 0) is the number of its admitted attempts whose decrement has not been
\* executed, and lies between 0 and maxConns.
C19_CounterIsOpenSessions ==
    \A u \in Identities :
        /\ CounterValue(u) = Cardinality(Open(u))
        /\ 0 <= CounterValue(u)
        /\ CounterValue(u) <= maxConns

\* The same for the identities none of whose counter reads has failed.
CounterIsOpenSessionsWhenReadsSucceed ==
    \A u \in Identities :
        (\A a \in AttemptsOf(u) : "HGet" \notin failed[a]) =>
            /\ CounterValue(u) = Cardinality(Open(u))
            /\ 0 <= CounterValue(u)
            /\ CounterValue(u) <= maxConns

====
